---- MODULE Spec2Model ----
(***************************************************************************)
(* Bitboard engine of the Connect Four solver                              *)
(* (internal/position): Position, Play, the move masks, the win detectors, *)
(* the canonical key and the two parsers.                                  *)
(*                                                                         *)
(* A uint64 is modelled as the set of the indices of its one bits          *)
(* (a subset of 0..63); the arithmetic below is the 64-bit arithmetic of   *)
(* Go on that representation (carries ripple, shifts drop what leaves the  *)
(* word).                                                                  *)
(***************************************************************************)
EXTENDS Integers, Sequences, FiniteSets, TLC

VARIABLES Board, Mask, moves, move_sequence, i, col, result

vars == <<Board, Mask, moves, move_sequence, i, col, result>>

(***************************************************************************)
(* Bounds of the exploration                                               *)
(***************************************************************************)
\* every sequence of plays is explored up to MaxMoves plies
MaxMoves == 7

\* games confined to the columns DeepCols are explored further, up to
\* MaxDeep plies (ten discs are the least that hold a diagonal of four)
MaxDeep == 10

\* board strings hold at most MaxDiscs discs, all of them in TextWindow
MaxDiscs == 4

\* move sequences hold at most MaxLen characters
MaxLen == 3

(***************************************************************************)
(* uint64 arithmetic                                                       *)
(***************************************************************************)
WordBits == 64

Word == 0 .. (WordBits - 1)

Zero == {}

And(a, b) == a \cap b

Or(a, b) == a \cup b

Xor(a, b) == (a \ b) \cup (b \ a)

Not(a) == Word \ a

Shl(a, n) == {b + n : b \in {x \in a : x + n < WordBits}}

Shr(a, n) == {b - n : b \in {x \in a : x >= n}}

\* a + b modulo 2^64.  Bit j generates a carry when it is set in both a and
\* b; the carry runs through the bits above j that are set in a or b and
\* stops in the first bit set in neither (or leaves the word).  The sum is
\* a xor b xor the bits a carry comes into.
CarryEnd(a, b, j) ==
    CHOOSE n \in (j + 1) .. WordBits : n \notin a /\ n \notin b
        /\ \A k \in (j + 1) .. (n - 1) : k \in a \/ k \in b

Carries(a, b) == UNION {(j + 1) .. CarryEnd(a, b, j) : j \in And(a, b)}

Add(a, b) == And(Xor(Xor(a, b), Carries(a, b)), Word)

Sub(a, b) == Add(a, Add(Not(b), {0}))

RECURSIVE Mul(_, _)
Mul(a, b) ==
    IF b = {} THEN {}
    ELSE LET n == CHOOSE x \in b : \A y \in b : x <= y
         IN  Add(Shl(a, n), Mul(a, b \ {n}))

Lt(a, b) ==
    LET d == Xor(a, b)
    IN  d # {} /\ (CHOOSE x \in d : \A y \in d : y <= x) \in b

(***************************************************************************)
(* Geometry                                                                *)
(***************************************************************************)
W == 7

H == 6

BoardSize == W * H

Centre == W \div 2

top_mask_col(c) == Shl({0}, H - 1 + c * (H + 1))

bottom_mask_col(c) == Shl({0}, c * (H + 1))

column_mask_of(c) == Shl(Sub(Shl({0}, H), {0}), c * (H + 1))

\* column_mask, tabulated once for the columns a caller can name (a digit)
ColumnMasks == [c \in 0 .. 9 |-> column_mask_of(c)]

column_mask(c) == ColumnMasks[c]

RECURSIVE bottom_mask_loop(_, _)
bottom_mask_loop(mask, k) ==
    IF k < W THEN bottom_mask_loop(Or(mask, bottom_mask_col(k)), k + 1) ELSE mask

bottom_mask == bottom_mask_loop(Zero, 0)

board_mask == Mul(bottom_mask, Sub(Shl({0}, H), {0}))

(***************************************************************************)
(* Position and Play                                                       *)
(***************************************************************************)
Cols == 0 .. (W - 1)

NoResult == [kind |-> "none"]

NewPosition ==
    /\ Board = Zero
    /\ Mask = Zero
    /\ moves = 0

PlayBoard(board, mask) == Xor(board, mask)

PlayMask_NoOr(mask, c) == Add(mask, bottom_mask_col(c))

PlayMask(mask, c) == Or(mask, Add(mask, bottom_mask_col(c)))

\* The documented precondition of Play: col is a playable column, that is,
\* the top usable cell of the column is empty.
ColumnHasRoom(mask, c) == (H - 1 + c * (H + 1)) \notin mask

\* the left half of the board, centre column included: the narrowest band of
\* columns that holds a run of four in every direction
DeepCols == 0 .. Centre

\* The plays explored: any column for the first MaxMoves plies, then only
\* games that never left the columns DeepCols, up to MaxDeep plies.
Explored(c) ==
    \/ moves < MaxMoves
    \/ /\ moves < MaxDeep
       /\ c \in DeepCols
       /\ \A b \in Mask : (b \div (H + 1)) \in DeepCols

Play(c) ==
    /\ result = NoResult
    /\ Explored(c)
    /\ ColumnHasRoom(Mask, c)
    /\ Board' = PlayBoard(Board, Mask)
    /\ Mask' = PlayMask(Mask, c)
    /\ moves' = moves + 1
    /\ UNCHANGED <<move_sequence, i, col, result>>

(***************************************************************************)
(* Move engine                                                             *)
(***************************************************************************)
\* self.Mask&top_mask_col(col) != 0 : in Go, & binds tighter than !=
IsPlayableAt(mask, c) == And(mask, top_mask_col(c)) # Zero

IsPlayable(c) == IsPlayableAt(Mask, c)

\* self.Mask + bottom_mask()&board_mask() : in Go, & binds tighter than +
PossibleAt(mask) == Add(mask, And(bottom_mask, board_mask))

Possible == PossibleAt(Mask)

(***************************************************************************)
(* Win detector                                                            *)
(***************************************************************************)
\* the alignments of compute_winning_position, before the final mask
winning_alignments(position) ==
    LET r0 == And(And(Shl(position, 1), Shl(position, 2)), Shl(position, 3))
        p  == And(Shl(position, H + 1), Shl(position, 2 * (H + 1)))
        r1 == Or(r0, And(p, Shl(position, 3 * (H + 1))))
        r2 == Or(r1, And(p, Shr(position, H + 1)))
        pb == Shr(p, 3 * (H + 1))
        r3 == Or(r2, And(pb, Shl(position, H + 1)))
        r4 == Or(r3, And(pb, Shr(position, 3 * (H + 1))))
        p2 == And(Shl(position, H), Shl(position, 2 * H))
        r5 == Or(r4, And(p2, Shl(position, 3 * H)))
        r6 == Or(r5, And(p2, Shr(position, H)))
        p2b == Shr(p2, 3 * H)
        r7 == Or(r6, And(p2b, Shl(position, H)))
        r8 == Or(r7, And(p2b, Shr(position, 3 * H)))
        p3 == And(Shl(position, H + 2), Shl(position, 2 * (H + 2)))
        r9 == Or(r8, And(p3, Shl(position, 3 * (H + 2))))
        r10 == Or(r9, And(p3, Shr(position, H + 2)))
        p3b == Shr(p3, 3 * (H + 2))
        r11 == Or(r10, And(p3b, Shl(position, H + 2)))
        r12 == Or(r11, And(p3b, Shr(position, 3 * (H + 2))))
    IN  r12

compute_winning_position_Unmasked(position, mask) ==
    And(winning_alignments(position), board_mask)

compute_winning_position(position, mask) ==
    And(winning_alignments(position), Xor(board_mask, mask))

winning_positions_of(board, mask) == compute_winning_position(board, mask)

opponent_winning_position_of(board, mask) ==
    compute_winning_position(Xor(board, mask), mask)

winning_positions == winning_positions_of(Board, Mask)

opponent_winning_position == opponent_winning_position_of(Board, Mask)

IsWinningMoveAt_AnyColumn(board, mask, c) ==
    And(winning_positions_of(board, mask), PossibleAt(mask)) # Zero

IsWinningMoveAt(board, mask, c) ==
    And(And(winning_positions_of(board, mask), PossibleAt(mask)), column_mask(c)) # Zero

IsWinningMove(c) == IsWinningMoveAt(Board, Mask, c)

compute_won_position_NoVertical(position) ==
    LET m  == And(position, Shr(position, H + 1))
        m2 == And(position, Shr(position, H))
        m3 == And(position, Shr(position, H + 2))
    IN  \/ And(m, Shr(m, 2 * (H + 1))) # Zero
        \/ And(m2, Shr(m2, 2 * H)) # Zero
        \/ And(m3, Shr(m3, 2 * (H + 2))) # Zero

compute_won_position(position) ==
    LET m  == And(position, Shr(position, H + 1))
        m2 == And(position, Shr(position, H))
        m3 == And(position, Shr(position, H + 2))
        m4 == And(position, Shr(position, 1))
    IN  IF And(m, Shr(m, 2 * (H + 1))) # Zero THEN TRUE
        ELSE IF And(m2, Shr(m2, 2 * H)) # Zero THEN TRUE
        ELSE IF And(m3, Shr(m3, 2 * (H + 2))) # Zero THEN TRUE
        ELSE IF And(m4, Shr(m4, 2)) # Zero THEN TRUE
        ELSE FALSE

IsWonPosition ==
    compute_won_position(Board) \/ compute_won_position(Xor(Board, Mask))

PossibleNonLosingMovesAt(board, mask) ==
    LET possible == PossibleAt(mask)
        opponent_wins == opponent_winning_position_of(board, mask)
        forced_moves == And(possible, opponent_wins)
    IN  IF forced_moves # Zero /\ And(forced_moves, Sub(forced_moves, {0})) # Zero
        THEN Zero
        ELSE And(IF forced_moves # Zero THEN forced_moves ELSE possible,
                 Not(Shr(opponent_wins, 1)))

PossibleNonLosingMoves == PossibleNonLosingMovesAt(Board, Mask)

(***************************************************************************)
(* Canonical key                                                           *)
(***************************************************************************)
RECURSIVE mirror_loop(_, _, _)
mirror_loop(bits, acc, c) ==
    IF c < Centre
    THEN LET mirrored_col == W - 1 - c
             shift == (mirrored_col - c) * (H + 1)
         IN  mirror_loop(bits,
                 Or(acc, Or(Shl(And(bits, column_mask(c)), shift),
                            Shr(And(bits, column_mask(mirrored_col)), shift))),
                 c + 1)
    ELSE acc

get_mirrored_bitmask_NoCentre(bits) == mirror_loop(bits, Zero, 0)

get_mirrored_bitmask(bits) ==
    LET swapped == mirror_loop(bits, Zero, 0)
    IN  IF W % 2 = 1 THEN Or(swapped, And(bits, column_mask(Centre))) ELSE swapped

GetKeyOf(board, mask) ==
    LET key == Add(board, mask)
        mirrored_key == Add(get_mirrored_bitmask(board), get_mirrored_bitmask(mask))
    IN  IF Lt(mirrored_key, key) THEN mirrored_key ELSE key

GetKey == GetKeyOf(Board, Mask)

(***************************************************************************)
(* Parsers.  Characters are code points.                                   *)
(***************************************************************************)
Dot == 46

LowerO == 111

LowerX == 120

Digit0 == 48

Digit9 == 57

ToLower(c) == IF c >= 65 /\ c <= 90 THEN c + 32 ELSE c

Significant(c) == c = Dot \/ c = LowerO \/ c = LowerX

BitIndexOf(k) ==
    LET row == H - (k \div W) - 1
        column == k % W
    IN  row + column * (H + 1)

PositionFromBoardString(board_string) ==
    LET lowered == [k \in 1 .. Len(board_string) |-> ToLower(board_string[k])]
        chars == SelectSeq(lowered, Significant)
        placed == {k \in 0 .. (Len(chars) - 1) : chars[k + 1] # Dot}
    IN  IF Len(chars) # BoardSize
        THEN [kind |-> "InvalidBoardStringLength", Actual |-> Len(chars),
              Expected |-> BoardSize, Board |-> Zero, Mask |-> Zero, moves |-> 0]
        ELSE [kind |-> "ok",
              Board |-> UNION {Shl(IF chars[k + 1] = LowerX THEN {0} ELSE Zero,
                                   BitIndexOf(k)) : k \in placed},
              Mask |-> UNION {Shl({0}, BitIndexOf(k)) : k \in placed},
              moves |-> Cardinality(placed)]

RECURSIVE Placements(_, _)
Placements(S, n) ==
    IF n = 0 THEN {{}}
    ELSE {{}} \cup UNION {{T \cup {x} : T \in Placements({y \in S : y > x}, n - 1)} : x \in S}

\* the characters of a board string that may hold a disc: the first
\* Centre + 1 characters of the first Centre + 1 text rows
TextWindow ==
    {k \in 0 .. (BoardSize - 1) : k % W <= Centre /\ k \div W <= Centre}

BoardStringOf(discs, xs) ==
    [k \in 1 .. BoardSize |->
        IF (k - 1) \in xs THEN LowerX ELSE IF (k - 1) \in discs THEN LowerO ELSE Dot]

\* board strings that exercise the filter, the lower-casing and the length check
OddBoardStrings ==
    { [k \in 1 .. (BoardSize - 1) |-> Dot],
      [k \in 1 .. (BoardSize + H) |->
          IF k % (W + 1) = 0 THEN 10 ELSE IF k = 1 THEN 88 ELSE IF k = 2 THEN 79 ELSE Dot] }

BoardPlacements == Placements(TextWindow, MaxDiscs)

LoadResult(r) ==
    /\ Board' = r.Board
    /\ Mask' = r.Mask
    /\ moves' = r.moves
    /\ result' = IF r.kind = "ok" THEN [kind |-> "ok"]
                 ELSE [kind |-> r.kind, Actual |-> r.Actual, Expected |-> r.Expected]
    /\ UNCHANGED <<move_sequence, i, col>>

\* PositionFromBoardString applied to a board string, as the first thing done
LoadBoard ==
    /\ result = NoResult
    /\ moves = 0
    /\ \/ \E discs \in BoardPlacements : \E xs \in SUBSET discs :
             LoadResult(PositionFromBoardString(BoardStringOf(discs, xs)))
       \/ \E s \in OddBoardStrings : LoadResult(PositionFromBoardString(s))

\* One iteration of the loop of PositionFromMoves over move_sequence
ParseStep ==
    /\ result = NoResult
    /\ i < Len(move_sequence)
    /\ LET c == move_sequence[i + 1]
           column == c - Digit0
       IN  IF ~(c >= Digit0 /\ c <= Digit9)
           THEN /\ result' = [kind |-> "InvalidCharacter", Character |-> c, Index |-> i]
                /\ UNCHANGED <<Board, Mask, moves, i, col>>
           ELSE /\ col' = column
                /\ IF ~IsPlayableAt(Mask, column)
                   THEN /\ result' = [kind |-> "InvalidFullColumnMove",
                                      Column |-> column + 1, Index |-> i]
                        /\ UNCHANGED <<Board, Mask, moves, i>>
                   ELSE IF IsWinningMoveAt(Board, Mask, column)
                   THEN /\ result' = [kind |-> "InvalidWinningMove",
                                      Column |-> column, Index |-> 0]
                        /\ UNCHANGED <<Board, Mask, moves, i>>
                   ELSE /\ Board' = PlayBoard(Board, Mask)
                        /\ Mask' = PlayMask(Mask, column)
                        /\ moves' = moves + 1
                        /\ i' = i + 1
                        /\ UNCHANGED result
    /\ UNCHANGED move_sequence

\* After the loop of PositionFromMoves
ParseEnd ==
    /\ result = NoResult
    /\ i = Len(move_sequence)
    /\ result' = IF col = -1
                 THEN [kind |-> "InvalidColumn", Column |-> col, Index |-> 0]
                 ELSE [kind |-> "ok"]
    /\ UNCHANGED <<Board, Mask, moves, move_sequence, i, col>>

Alphabet == (Digit0 - 1) .. (Digit9 + 1)

MoveStrings == UNION {[1 .. n -> Alphabet] : n \in 0 .. MaxLen}

Init ==
    /\ NewPosition
    /\ move_sequence = <<>>
    /\ i = 0
    /\ col = -1
    /\ result = NoResult

Next == \E c \in Cols : Play(c)

Spec == Init /\ [][Next]_vars

\* Positions made by NewPosition and Play, or by PositionFromBoardString
NextAll == Next \/ LoadBoard

SpecAll == Init /\ [][NextAll]_vars

\* PositionFromMoves applied to a move sequence
InitMoves ==
    /\ NewPosition
    /\ move_sequence \in MoveStrings
    /\ i = 0
    /\ col = -1
    /\ result = NoResult

NextMoves == ParseStep \/ ParseEnd

SpecMoves == InitMoves /\ [][NextMoves]_vars

(***************************************************************************)
(* The board as the claims describe it: cells by column and row            *)
(***************************************************************************)
Rows == 0 .. (H - 1)

Cell(c, r) == r + c * (H + 1)

UsableCells == {Cell(c, r) : c \in Cols, r \in Rows}

SentinelBits == {Cell(c, H) : c \in Cols}

Discs(mask, c) == Cardinality({r \in Rows : Cell(c, r) \in mask})

Directions == {<<1, 0>>, <<0, 1>>, <<1, 1>>, <<1, -1>>}

LineFrom(c, r, d) == {<<c + k * d[1], r + k * d[2]>> : k \in 0 .. 3}

LinesAlong(ds) ==
    {{Cell(x[1], x[2]) : x \in LineFrom(t[1], t[2], t[3])} :
        t \in {u \in Cols \X Rows \X ds :
            \A x \in LineFrom(u[1], u[2], u[3]) : x[1] \in Cols /\ x[2] \in Rows}}

Lines == LinesAlong(Directions)

DiagonalLines == LinesAlong({<<1, 1>>, <<1, -1>>})

OwnsFour(cells) == \E L \in Lines : L \subseteq cells

Completes(cells, n) == \E L \in Lines : n \in L /\ (L \ {n}) \subseteq cells

LandingCells(mask) == {Cell(c, Discs(mask, c)) : c \in {x \in Cols : Discs(mask, x) < H}}

MirrorCell(b) == Cell(W - 1 - (b \div (H + 1)), b % (H + 1))

MirrorColumns(bits) == {MirrorCell(b) : b \in bits}

Opponent == Xor(Board, Mask)

\* A move sequence as the claims read it: move k (1-based) is a digit naming
\* a column, its disc lands on the discs already in that column, and the
\* movers alternate.
IsDigit(ch) == ch \in Digit0 .. Digit9

EarlierInColumn(s, k) == Cardinality({j \in 1 .. (k - 1) : s[j] = s[k]})

LandingOf(s, k) == Cell(s[k] - Digit0, EarlierInColumn(s, k))

MoverDiscs(s, k) == {LandingOf(s, j) : j \in {x \in 1 .. (k - 1) : (k - x) % 2 = 0}}

Offence(s, k) ==
    IF ~IsDigit(s[k]) THEN "InvalidCharacter"
    ELSE IF EarlierInColumn(s, k) >= H THEN "InvalidFullColumnMove"
    ELSE IF Completes(MoverDiscs(s, k), LandingOf(s, k)) THEN "InvalidWinningMove"
    ELSE "none"

NamesColumns(s) == \A k \in 1 .. Len(s) : IsDigit(s[k]) => (s[k] - Digit0) \in Cols

ValidMoveString(s) ==
    /\ Len(s) > 0
    /\ NamesColumns(s)
    /\ \A k \in 1 .. Len(s) : Offence(s, k) = "none"

Offences(s) == {k \in 1 .. Len(s) : Offence(s, k) # "none"}

FirstOffence(s) == CHOOSE k \in Offences(s) : \A j \in Offences(s) : k <= j

(***************************************************************************)
(* Claims                                                                  *)
(***************************************************************************)

\* C1: after every Play into a column that is not full, the current
\* player's mask is a subset of the occupancy mask (Board & Mask == Board)
\* and the move counter equals the population count of the occupancy mask.
C1_PlayKeepsInvariants ==
    /\ And(Board, Mask) = Board
    /\ moves = Cardinality(Mask)

C1_Witness == moves >= 3 /\ Board # Zero /\ Board # Mask

\* C2: IsPlayable(c) is true while column c holds fewer than H discs and
\* false once it holds H discs; it is true for every column of the empty
\* board.
C2_IsPlayableIffRoom ==
    \A c \in Cols : IsPlayable(c) <=> (Discs(Mask, c) < H)

\* C3: GetKey is invariant under horizontal mirroring: the position and the
\* position with column c swapped with column W-1-c in both masks return
\* the same key.
C3_KeyMirrorInvariant ==
    (And(Mask, SentinelBits) = Zero /\ And(Board, Mask) = Board)
        => GetKey = GetKeyOf(MirrorColumns(Board), MirrorColumns(Mask))

C3_Witness ==
    /\ MirrorColumns(Mask) # Mask
    /\ GetKey # Add(Board, Mask)
    /\ And(Mask, column_mask(Centre)) # Zero
    /\ Board # Zero

\* C4: PositionFromMoves applied to a non-empty string of digits naming
\* columns 0..W-1, in which no column receives more than H discs and no move
\* completes four in a row for the mover, returns a Position (no error)
\* whose move count is the length of the string.
C4_ValidMovesParse ==
    (result # NoResult /\ ValidMoveString(move_sequence))
        => (result.kind = "ok" /\ moves = Len(move_sequence))

\* C5: PositionFromMoves aborts at the first offending character with the
\* error matching the offence (InvalidCharacter, InvalidFullColumnMove,
\* InvalidWinningMove), and the Index of the error is the position of that
\* character in the input.
C5_FirstOffenceReported ==
    (result # NoResult /\ NamesColumns(move_sequence))
        => IF Offences(move_sequence) = {}
           THEN result.kind \in {"ok", "InvalidColumn"}
           ELSE /\ result.kind = Offence(move_sequence, FirstOffence(move_sequence))
                /\ result.Index = FirstOffence(move_sequence) - 1

\* C6: Possible() equals (occupancy + bottom_mask) & board_mask: exactly one
\* bit per non-full column, at the lowest empty usable cell of the column,
\* and no bit (no sentinel bit) for a full column.
C6_PossibleIsLandingCells ==
    /\ Possible = And(Add(Mask, bottom_mask), board_mask)
    /\ Possible = LandingCells(Mask)

\* C7: PossibleNonLosingMoves() is exactly the set of landing cells m such
\* that, once the current player has a disc at m, no landing cell completes
\* four in a row for the opponent; it is empty when the opponent has two or
\* more playable winning cells and it never contains a sentinel bit.
C7_NonLosingMoves ==
    /\ PossibleNonLosingMoves =
          {m \in LandingCells(Mask) :
              \A n \in LandingCells(Mask \cup {m}) : ~Completes(Opponent, n)}
    /\ Cardinality({n \in LandingCells(Mask) : Completes(Opponent, n)}) >= 2
          => PossibleNonLosingMoves = Zero
    /\ And(PossibleNonLosingMoves, SentinelBits) = Zero

\* C8: IsWonPosition() is true iff the current player's cells or the
\* opponent's cells contain four cells consecutive along a row, a column or
\* a diagonal of the W x H board (no run wraps through a sentinel bit).
C8_WonIffFourInLine ==
    IsWonPosition <=> (OwnsFour(Board) \/ OwnsFour(Opponent))

C8_Witness ==
    /\ result = [kind |-> "ok"]
    /\ IsWonPosition
    /\ \E L \in DiagonalLines : L \subseteq Board

\* C9: the winning-position masks of the current player and of the opponent
\* contain no occupied cell and no sentinel bit: they are subsets of
\* board_mask AND NOT occupancy.
C9_WinningCellsAreEmptyCells ==
    /\ winning_positions \subseteq (UsableCells \ Mask)
    /\ opponent_winning_position \subseteq (UsableCells \ Mask)

C9_Witness == winning_positions # Zero /\ opponent_winning_position # Zero

\* C10: in a position that is not won, for every column c that is not full,
\* IsWinningMove(c) holds before the move iff IsWonPosition() holds right
\* after Play(c).
C10_WinningMoveIffWonAfterPlay ==
    [][\A c \in Cols :
          (Play(c) /\ ~IsWonPosition) => (IsWinningMove(c) <=> IsWonPosition')]_vars

C10_Witness ==
    /\ result = NoResult
    /\ moves > 0
    /\ ~OwnsFour(Board)
    /\ \E L \in DiagonalLines : L \subseteq Opponent /\ IsWonPosition

====
